---- MODULE Spec2Model ----
(***************************************************************************)
(* The recording pipeline of the Sentinel dashboard: the useVideoRecorder  *)
(* hook (src/src/hooks/useSentinelSettings.ts, lines 47-179) and the       *)
(* RecordingControls component that drives it                              *)
(* (src/src/components/sentinel/RecordingControls.tsx).                    *)
(*                                                                         *)
(* React's execution model is what makes the code's behaviour non-trivial, *)
(* so it is part of the model:                                             *)
(*  - a handler runs to completion (one action);                           *)
(*  - setState does not change what the handlers and the screen see: it    *)
(*    queues an update, and the next render commits the queue;             *)
(*  - every callback closes over the state of the render that made it;     *)
(*  - a click is a discrete event: its render and the effects of that      *)
(*    render run before any other task; updates queued from a timer, an    *)
(*    effect or a media event are rendered by a later task, and the        *)
(*    effects of that render by a later task again, so a timer callback    *)
(*    can run in between.                                                  *)
(***************************************************************************)
EXTENDS Integers, Sequences, FiniteSets, TLC

\* ------------------------------------------------------------ bounds
MaxFrames == 2         \* frames captured in one session
MaxRuns == 2           \* recording sessions started, and compiles that save
maxDuration == 2       \* the maxDuration prop RecordingControls is given, in seconds
MaxLoads == 3          \* loads of the player's source up to which the videoUrl prop changes

\* ------------------------------------------------- program constants
CaptureInterval == 100     \* RecordingControls.tsx:53
DurationInterval == 1000   \* useSentinelSettings.ts:71
MsPerSecond == 1000        \* useSentinelSettings.ts:69
MinFrameInterval == 33     \* useSentinelSettings.ts:142-143
StopDelay == 100           \* useSentinelSettings.ts:132
MAX_RETRIES == 3           \* VideoPlayer.tsx:12

Null == 0                  \* null: a falsy ref (timer ids and clock readings are > 0)

\* The readings Date.now() gives while the component is followed: the full
\* seconds, and one reading a capture interval after the first.
Instants == { k * MsPerSecond : k \in 1..4 } \cup { MsPerSecond + CaptureInterval }

\* What canvasRef.current is: no element, or the canvas.
CanvasStates == {"null", "canvas"}

\* canvas.toDataURL("image/jpeg", 0.8)
toDataURL(c) == "data:image/jpeg"

Max(a, b) == IF a >= b THEN a ELSE b

VARIABLES
  now,                \* the last reading of Date.now()
  canvas,             \* canvasRef.current
  isRecording,        \* state as of the last committed render:
  recordedFrames,     \*   what the screen shows and what the
  recordingDuration,  \*   callbacks of that render close over
  isCompiling,
  queued,             \* the state the queued updates lead to at the next render
  startTimeRef,       \* useVideoRecorder's startTimeRef.current
  intervalRef,        \* useVideoRecorder's intervalRef.current (a timer id or Null)
  captureIntervalRef, \* RecordingControls' captureIntervalRef.current
  timers,             \* the live setInterval timers
  nextTimerId,        \* the id the next setInterval returns
  effects,            \* passive effects of the last render that have not run yet
  comp,               \* the compile started by handleDownload
  toasts,             \* what handleDownload last told the user
  saved,              \* artifacts handed to the save action (a.click())
  returned,           \* what a direct call of the hook's API gave its caller
  starts,             \* sessions started
  mounted,            \* RecordingControls is mounted
  autoStops,          \* times the auto-stop effect has stopped the current session
  \* VideoPlayer (src/src/components/sentinel/VideoPlayer.tsx)
  videoUrl,           \* the videoUrl prop
  isHovered,
  hasError,
  isLoading,
  retryCount,
  video,              \* the <video> element: "none" while it is not rendered
  loads,              \* loads of the source the <video> element has started
  playerQueued,       \* the player's state after the queued updates
  \* useSentinelSettings (src/src/hooks/useSentinelSettings.ts:16-45)
  settings,           \* the settings of the last render
  settingsQueued,     \* the settings after the queued updates
  isLoaded,
  persisted,          \* localStorage's item under STORAGE_KEY
  given,              \* the latest value given to updateSettings, per key, since the last reset
  lastCall            \* the last of updateSettings / resetSettings called

recorderVars == << now, canvas, isRecording, recordedFrames, recordingDuration, isCompiling,
           queued, startTimeRef, intervalRef, captureIntervalRef, timers, nextTimerId,
           effects, comp, toasts, saved, returned, starts, mounted, autoStops >>

playerVars == << videoUrl, isHovered, hasError, isLoading, retryCount, video, loads,
                playerQueued >>

settingsVars == << settings, settingsQueued, isLoaded, persisted, given, lastCall >>

vars == << recorderVars, playerVars, settingsVars >>

\* The whole state as one record, so that a handler, the render it causes and the
\* effects of that render compose into one action.
World ==
  [ now |-> now, canvas |-> canvas, isRecording |-> isRecording,
    recordedFrames |-> recordedFrames, recordingDuration |-> recordingDuration,
    isCompiling |-> isCompiling, queued |-> queued, startTimeRef |-> startTimeRef,
    intervalRef |-> intervalRef, captureIntervalRef |-> captureIntervalRef,
    timers |-> timers, nextTimerId |-> nextTimerId, effects |-> effects,
    comp |-> comp, toasts |-> toasts, saved |-> saved, returned |-> returned,
    starts |-> starts, mounted |-> mounted, autoStops |-> autoStops ]

Becomes(w) ==
  /\ now' = w.now
  /\ canvas' = w.canvas
  /\ isRecording' = w.isRecording
  /\ recordedFrames' = w.recordedFrames
  /\ recordingDuration' = w.recordingDuration
  /\ isCompiling' = w.isCompiling
  /\ queued' = w.queued
  /\ startTimeRef' = w.startTimeRef
  /\ intervalRef' = w.intervalRef
  /\ captureIntervalRef' = w.captureIntervalRef
  /\ timers' = w.timers
  /\ nextTimerId' = w.nextTimerId
  /\ effects' = w.effects
  /\ comp' = w.comp
  /\ toasts' = w.toasts
  /\ saved' = w.saved
  /\ returned' = w.returned
  /\ starts' = w.starts
  /\ mounted' = w.mounted
  /\ autoStops' = w.autoStops
  /\ UNCHANGED << playerVars, settingsVars >>

\* ------------------------------------------------------------ timers
\* setInterval(callback, interval): a new live timer, first due one interval
\* from now; from then on its callback can run at any reading of the clock (a
\* timer that is late runs its missed turns back to back). closure is the
\* isRecording its callback closed over.
setInterval(w, kind, interval, closure) ==
  [w EXCEPT !.timers = @ \cup {[id |-> w.nextTimerId, kind |-> kind,
                                due |-> w.now + interval, closure |-> closure]},
            !.nextTimerId = @ + 1]

\* clearInterval(id)
clearInterval(w, id) ==
  [w EXCEPT !.timers = {t \in @ : t.id # id}]

\* ------------------------------------------------- useVideoRecorder
\* startRecording without its setRecordedFrames([]): the frames of the last
\* session stay.
startRecordingKeepsFrames(w) ==
  LET w1 == [w EXCEPT !.queued.recordingDuration = 0,
                      !.startTimeRef = w.now,
                      !.queued.isRecording = TRUE,
                      !.starts = @ + 1,
                      !.autoStops = 0]
      w2 == setInterval(w1, "duration", DurationInterval, TRUE)
  IN  [w2 EXCEPT !.intervalRef = w1.nextTimerId]

\* startRecording (useSentinelSettings.ts:61-72)
startRecording(w) ==
  LET w1 == [w EXCEPT !.queued.recordedFrames = <<>>,
                      !.queued.recordingDuration = 0,
                      !.startTimeRef = w.now,
                      !.queued.isRecording = TRUE,
                      !.starts = @ + 1,
                      !.autoStops = 0]
      w2 == setInterval(w1, "duration", DurationInterval, TRUE)
  IN  [w2 EXCEPT !.intervalRef = w1.nextTimerId]

\* stopRecording with a toggle in place of setIsRecording(false).
stopRecordingToggles(w) ==
  LET w1 == [w EXCEPT !.queued.isRecording = ~@]
      w2 == IF w1.intervalRef # Null
              THEN [clearInterval(w1, w1.intervalRef) EXCEPT !.intervalRef = Null]
              ELSE w1
  IN  [w2 EXCEPT !.startTimeRef = Null]

\* stopRecording (useSentinelSettings.ts:74-81)
stopRecording(w) ==
  LET w1 == [w EXCEPT !.queued.isRecording = FALSE]
      w2 == IF w1.intervalRef # Null
              THEN [clearInterval(w1, w1.intervalRef) EXCEPT !.intervalRef = Null]
              ELSE w1
  IN  [w2 EXCEPT !.startTimeRef = Null]

\* The callback of the duration timer (useSentinelSettings.ts:67-71).
durationTick(w) ==
  IF w.startTimeRef # Null
    THEN [w EXCEPT !.queued.recordingDuration = (w.now - w.startTimeRef) \div MsPerSecond]
    ELSE w

\* addFrame whose updater puts the new frame first: [frame, ...prev].
addFramePrepends(w, closureIsRecording, dataUrl, eager) ==
  IF closureIsRecording
    THEN [w EXCEPT !.queued.recordedFrames =
                      << [dataUrl |-> dataUrl,
                          timestamp |-> IF eager THEN w.now ELSE Null] >> \o @]
    ELSE w

\* addFrame whose updater forgets prev: the store is the new frame alone.
addFrameKeepsLatest(w, closureIsRecording, dataUrl, eager) ==
  IF closureIsRecording
    THEN [w EXCEPT !.queued.recordedFrames =
                      << [dataUrl |-> dataUrl,
                          timestamp |-> IF eager THEN w.now ELSE Null] >>]
    ELSE w

\* addFrame (useSentinelSettings.ts:83-90), as made by a render whose isRecording
\* was closureIsRecording. The updater, and the Date.now() in it, runs when
\* React processes the update: at once when nothing else is queued (eager), else
\* at the next render; a timestamp still to be read is Null in the queue.
addFrame(w, closureIsRecording, dataUrl, eager) ==
  IF closureIsRecording
    THEN [w EXCEPT !.queued.recordedFrames =
                      Append(@, [dataUrl |-> dataUrl,
                                 timestamp |-> IF eager THEN w.now ELSE Null])]
    ELSE w

\* ------------------------------------------------- RecordingControls
\* handleStartRecording (RecordingControls.tsx:64-68)
handleStartRecording(w) == startRecording(w)

\* handleStopRecording (RecordingControls.tsx:70-74)
handleStopRecording(w) == stopRecording(w)

\* The capture callback without its test of canvasRef.current.
captureTickNoSourceCheck(w, t, eager) ==
  addFrame(w, t.closure, toDataURL(w.canvas), eager)

\* The callback of the capture timer t (RecordingControls.tsx:48-53).
captureTick(w, t, eager) ==
  IF w.canvas # "null"
    THEN addFrame(w, t.closure, toDataURL(w.canvas), eager)
    ELSE w

\* ------------------------------------------------------------ React
\* The updaters still to run read Date.now() at the render.
Stamp(frames, t) ==
  [i \in 1..Len(frames) |->
     IF frames[i].timestamp = Null THEN [frames[i] EXCEPT !.timestamp = t] ELSE frames[i]]

\* A render commits the queued updates. The effects whose dependencies changed
\* are left to run: the auto-stop effect depends on [isRecording,
\* recordingDuration, maxDuration], the capture effect on [isRecording,
\* canvasRef, addFrame], and addFrame is remade exactly when isRecording changes.
Render(w) ==
  LET frames == Stamp(w.queued.recordedFrames, w.now)
      recChanged == w.queued.isRecording # w.isRecording
      durChanged == w.queued.recordingDuration # w.recordingDuration
  IN  [w EXCEPT !.isRecording = w.queued.isRecording,
                !.recordedFrames = frames,
                !.recordingDuration = w.queued.recordingDuration,
                !.isCompiling = w.queued.isCompiling,
                !.queued.recordedFrames = frames,
                !.effects = @ \cup (IF recChanged \/ durChanged THEN {"autoStop"} ELSE {})
                              \cup (IF recChanged THEN {"capture"} ELSE {})]

\* The cleanup of the capture effect (RecordingControls.tsx:56-61).
captureCleanup(w) ==
  IF w.captureIntervalRef # Null
    THEN [clearInterval(w, w.captureIntervalRef) EXCEPT !.captureIntervalRef = Null]
    ELSE w

\* The auto-stop effect without its test of isRecording.
autoStopEffectAnyState(w) ==
  IF w.recordingDuration >= maxDuration
    THEN [handleStopRecording(w) EXCEPT !.autoStops = @ + 1]
    ELSE w

\* The auto-stop effect (RecordingControls.tsx:38-43).
autoStopEffect(w) ==
  IF w.isRecording /\ w.recordingDuration >= maxDuration
    THEN [handleStopRecording(w) EXCEPT !.autoStops = @ + 1]
    ELSE w

\* The capture effect (RecordingControls.tsx:46-54).
captureEffect(w) ==
  IF w.isRecording /\ w.canvas # "null"
    THEN [setInterval(w, "capture", CaptureInterval, w.isRecording)
            EXCEPT !.captureIntervalRef = w.nextTimerId]
    ELSE w

\* React runs the pending effects: the cleanups first, then the effects in the
\* order the component declares them.
FlushEffects(w) ==
  LET w1 == IF "capture" \in w.effects THEN captureCleanup(w) ELSE w
      w2 == IF "autoStop" \in w.effects THEN autoStopEffect(w1) ELSE w1
      w3 == IF "capture" \in w.effects THEN captureEffect(w2) ELSE w2
  IN  [w3 EXCEPT !.effects = {}]

\* A discrete event (a click): after the handler React runs the effects still
\* pending, renders, and runs the effects of that render, all before any other task.
SyncFlush(w) == FlushEffects(Render(FlushEffects(w)))

\* ---------------------------------------------------- compileToVideo
\* recordedFrames[i], counted from 0 as the code counts.
At(frames, i) == frames[i + 1]

NoCompile ==
  [pc |-> "idle", via |-> "none", frames |-> <<>>, frameIndex |-> 0, due |-> Null,
   recorder |-> "none", shown |-> <<>>]

\* delay without its Math.max: the bare gap between the timestamps.
delayNoFloor(frames, frameIndex) ==
  IF frameIndex < Len(frames)
    THEN At(frames, frameIndex).timestamp - At(frames, frameIndex - 1).timestamp
    ELSE MinFrameInterval

\* delay ignoring the timestamps: every frame held one MinFrameInterval.
delayFixedRate(frames, frameIndex) == MinFrameInterval

\* The hold after drawing a frame, frameIndex already incremented
\* (useSentinelSettings.ts:141-143).
delay(frames, frameIndex) ==
  IF frameIndex < Len(frames)
    THEN Max(MinFrameInterval,
             At(frames, frameIndex).timestamp - At(frames, frameIndex - 1).timestamp)
    ELSE MinFrameInterval

\* compileToVideo without its check of recordedFrames.length.
compileToVideoNoEmptyCheck(w, via, ctx) ==
  IF ~ctx
    THEN [w EXCEPT !.comp = [NoCompile EXCEPT !.pc = "null", !.via = via]]
    ELSE [w EXCEPT !.comp = [NoCompile EXCEPT !.pc = "firstImg", !.via = via,
                                              !.frames = w.recordedFrames]]

\* compileToVideo up to its first wait (useSentinelSettings.ts:92-101, 151), called
\* by via. recordedFrames is the one of the render that made the callback. pc
\* "null" is the promise resolved with null; ctx is whether getContext("2d")
\* gave a context.
compileToVideo(w, via, ctx) ==
  IF Len(w.recordedFrames) = 0 \/ ~ctx
    THEN [w EXCEPT !.comp = [NoCompile EXCEPT !.pc = "null", !.via = via]]
    ELSE [w EXCEPT !.comp = [NoCompile EXCEPT !.pc = "firstImg", !.via = via,
                                              !.frames = w.recordedFrames]]

\* drawFrame reading the store as it is now, not the recordedFrames its
\* compileToVideo closed over.
drawFrameReadsStore(w) ==
  IF w.comp.frameIndex >= Len(w.recordedFrames)
    THEN [w EXCEPT !.comp.pc = "stopWait", !.comp.due = w.now + StopDelay,
                   !.comp.frames = w.recordedFrames]
    ELSE [w EXCEPT !.comp.pc = "frameImg", !.comp.frames = w.recordedFrames]

\* drawFrame (useSentinelSettings.ts:130-147): past the last frame it arms the
\* timeout that stops the recorder, else it sets the next image loading.
drawFrame(w) ==
  IF w.comp.frameIndex >= Len(w.comp.frames)
    THEN [w EXCEPT !.comp.pc = "stopWait", !.comp.due = w.now + StopDelay]
    ELSE [w EXCEPT !.comp.pc = "frameImg"]

\* img.onload (useSentinelSettings.ts:105-150). recorderOk is whether
\* new MediaRecorder(...) and start() succeed; when they throw, the handler ends
\* there and nothing settles the promise.
imgOnload(w, recorderOk) ==
  IF recorderOk
    THEN drawFrame([w EXCEPT !.comp.recorder = "recording", !.comp.frameIndex = 0])
    ELSE [w EXCEPT !.comp.pc = "threw"]

\* frameImg.onload calling drawFrame() itself instead of setTimeout(drawFrame,
\* delay): the hold is computed and not waited for.
frameImgOnloadNoWait(w) ==
  LET drawn == At(w.comp.frames, w.comp.frameIndex)
      next == w.comp.frameIndex + 1
      hold == delay(w.comp.frames, next)
  IN  drawFrame([w EXCEPT !.comp.frameIndex = next,
                          !.comp.due = w.now + hold,
                          !.comp.shown = Append(@, [frame |-> drawn, hold |-> hold])])

\* frameImg.onload (useSentinelSettings.ts:137-145): draw, count, hold.
frameImgOnload(w) ==
  LET drawn == At(w.comp.frames, w.comp.frameIndex)
      next == w.comp.frameIndex + 1
      hold == delay(w.comp.frames, next)
  IN  [w EXCEPT !.comp.frameIndex = next,
                !.comp.pc = "hold",
                !.comp.due = w.now + hold,
                !.comp.shown = Append(@, [frame |-> drawn, hold |-> hold])]

\* The timeout of useSentinelSettings.ts:132: mediaRecorder.stop().
stopRecorder(w) ==
  [w EXCEPT !.comp.pc = "stopping", !.comp.recorder = "inactive"]

\* img and frameImg have no onerror (useSentinelSettings.ts:104-105, 136-137):
\* when the image cannot be decoded its error event runs nothing, and the
\* compile waits for a load that never comes.
imgOnerror(w) ==
  [w EXCEPT !.comp.pc = "imgError"]

\* downloadVideo after its await (useSentinelSettings.ts:157-166); blob is
\* whether compileToVideo gave a Blob rather than null.
downloadVideoSettled(w, blob) ==
  IF ~blob THEN w ELSE [w EXCEPT !.saved = @ + 1]

\* handleDownload after its await (RecordingControls.tsx:87, 91-93).
handleDownloadSettled(w) ==
  [w EXCEPT !.toasts = "Video downloaded successfully", !.queued.isCompiling = FALSE]

\* Settled that empties the store once the artifact is made.
SettledClearsStore(w, blob) ==
  LET w1 == IF w.comp.via = "compileToVideo"
              THEN [w EXCEPT !.returned = IF blob THEN "blob" ELSE "null"]
              ELSE downloadVideoSettled(w, blob)
      w2 == IF w.comp.via = "handleDownload" THEN handleDownloadSettled(w1)
            ELSE IF w.comp.via = "downloadVideo" THEN [w1 EXCEPT !.returned = "undefined"]
            ELSE w1
  IN  [w2 EXCEPT !.comp = NoCompile,
                 !.queued.recordedFrames = IF blob THEN <<>> ELSE @]

\* The promise of compileToVideo settles: its awaiters run. A direct caller of
\* compileToVideo gets the Blob or null, one of downloadVideo gets undefined.
Settled(w, blob) ==
  LET w1 == IF w.comp.via = "compileToVideo"
              THEN [w EXCEPT !.returned = IF blob THEN "blob" ELSE "null"]
              ELSE downloadVideoSettled(w, blob)
      w2 == IF w.comp.via = "handleDownload" THEN handleDownloadSettled(w1)
            ELSE IF w.comp.via = "downloadVideo" THEN [w1 EXCEPT !.returned = "undefined"]
            ELSE w1
  IN  [w2 EXCEPT !.comp = NoCompile]

\* mediaRecorder.onstop (useSentinelSettings.ts:121-124)
recorderOnstop(w) == Settled(w, TRUE)

\* downloadVideo up to its await (useSentinelSettings.ts:155-156)
downloadVideo(w, via, ctx) == compileToVideo(w, via, ctx)

\* handleDownload without its setIsCompiling(true).
handleDownloadNoFlag(w, ctx) ==
  IF Len(w.recordedFrames) = 0
    THEN [w EXCEPT !.toasts = "No frames recorded"]
    ELSE downloadVideo([w EXCEPT !.toasts = "Compiling video..."], "handleDownload", ctx)

\* handleDownload up to its await (RecordingControls.tsx:76-86)
handleDownload(w, ctx) ==
  IF Len(w.recordedFrames) = 0
    THEN [w EXCEPT !.toasts = "No frames recorded"]
    ELSE downloadVideo([w EXCEPT !.queued.isCompiling = TRUE,
                                 !.toasts = "Compiling video..."],
                       "handleDownload", ctx)

\* ----------------------------------------------------------- actions
\* VideoPlayer as it mounts: the useState initial values (VideoPlayer.tsx:17-20)
\* and the <video> element starting to load its src.
PlayerInit ==
  /\ videoUrl = "a.mp4"
  /\ playerQueued = [isHovered |-> FALSE, hasError |-> FALSE, isLoading |-> TRUE,
                     retryCount |-> 0]
  /\ isHovered = FALSE
  /\ hasError = FALSE
  /\ isLoading = TRUE
  /\ retryCount = 0
  /\ video = "loading"
  /\ loads = 1

\* DEFAULT_SETTINGS, for the two settings followed.
DEFAULT_SETTINGS == [detectionSensitivity |-> 50, alertThreshold |-> 70]

\* localStorage.getItem gives null.
NoStore == [kind |-> "absent", members |-> << >>]

\* No key has been given to updateSettings.
NoneGiven == [k \in {} |-> 0]

\* useSentinelSettings before its mount effect, nothing stored.
SettingsInit ==
  /\ settings = DEFAULT_SETTINGS
  /\ settingsQueued = DEFAULT_SETTINGS
  /\ isLoaded = FALSE
  /\ persisted = NoStore
  /\ given = NoneGiven
  /\ lastCall = "none"

RecorderInit ==
  /\ now = MsPerSecond
  /\ canvas \in CanvasStates
  /\ isRecording = FALSE
  /\ recordedFrames = <<>>
  /\ recordingDuration = 0
  /\ isCompiling = FALSE
  /\ queued = [isRecording |-> FALSE, recordedFrames |-> <<>>,
               recordingDuration |-> 0, isCompiling |-> FALSE]
  /\ startTimeRef = Null
  /\ intervalRef = Null
  /\ captureIntervalRef = Null
  /\ timers = {}
  /\ nextTimerId = 1
  /\ effects = {}
  /\ comp = NoCompile
  /\ toasts = "none"
  /\ saved = 0
  /\ returned = "none"
  /\ starts = 0
  /\ mounted = TRUE
  /\ autoStops = 0

Init == RecorderInit /\ PlayerInit /\ SettingsInit

\* What the last render committed, as the queue's record.
Committed ==
  [isRecording |-> isRecording, recordedFrames |-> recordedFrames,
   recordingDuration |-> recordingDuration, isCompiling |-> isCompiling]

\* Time passes: the next reading of the clock is a later one.
AdvanceTime ==
  /\ \E t \in Instants : t > now /\ now' = t
  /\ UNCHANGED << canvas, isRecording, recordedFrames, recordingDuration, isCompiling,
                  queued, startTimeRef, intervalRef, captureIntervalRef, timers,
                  nextTimerId, effects, comp, toasts, saved, returned, starts, mounted,
                  autoStops, playerVars, settingsVars >>

\* The page mounts, unmounts or resizes the canvas element.
CanvasChanges ==
  /\ \E c \in CanvasStates \ {canvas} : canvas' = c
  /\ UNCHANGED << now, isRecording, recordedFrames, recordingDuration, isCompiling,
                  queued, startTimeRef, intervalRef, captureIntervalRef, timers,
                  nextTimerId, effects, comp, toasts, saved, returned, starts, mounted,
                  autoStops, playerVars, settingsVars >>

\* The START RECORDING button, there when the last render had isRecording false
\* (RecordingControls.tsx:125-133).
ClickStart ==
  /\ mounted
  /\ ~isRecording
  /\ starts < MaxRuns
  /\ Becomes(SyncFlush(handleStartRecording(World)))

\* The STOP RECORDING button (RecordingControls.tsx:134-142).
ClickStop ==
  /\ mounted
  /\ isRecording
  /\ Becomes(SyncFlush(handleStopRecording(World)))

\* The DOWNLOAD button, disabled as RecordingControls.tsx:148 says. A compile
\* that resolves with null settles within the click.
ClickDownload ==
  /\ mounted
  /\ ~(Len(recordedFrames) = 0 \/ isCompiling \/ isRecording)
  /\ comp.pc = "idle"
  /\ saved < MaxRuns
  /\ \E ctx \in BOOLEAN :
       LET w1 == SyncFlush(handleDownload(World, ctx))
       IN  Becomes(IF w1.comp.pc = "null" THEN SyncFlush(Settled(w1, FALSE)) ELSE w1)

\* The capture timer fires (RecordingControls.tsx:48-53). The updater runs at
\* once only when no update is waiting for a render.
CaptureTimerFires ==
  \E t \in timers, eager \in BOOLEAN :
    /\ t.kind = "capture"
    /\ now >= t.due
    /\ Len(queued.recordedFrames) < MaxFrames
    /\ eager => queued = Committed
    /\ Becomes(captureTick(World, t, eager))

\* A duration timer fires (useSentinelSettings.ts:67-71).
DurationTimerFires ==
  \E t \in timers :
    /\ t.kind = "duration"
    /\ now >= t.due
    /\ Becomes(durationTick(World))

\* React renders the updates queued outside a click.
RenderTask ==
  /\ mounted
  /\ effects = {}
  /\ queued # Committed
  /\ Becomes(Render(World))

\* React runs the effects of a render that was not a click's.
EffectsTask ==
  /\ mounted
  /\ effects # {}
  /\ Becomes(FlushEffects(World))

\* The first image of the compile has loaded.
FirstImageLoads ==
  /\ comp.pc = "firstImg"
  /\ \E recorderOk \in BOOLEAN : Becomes(imgOnload(World, recorderOk))

\* The image of the frame to draw has loaded.
FrameImageLoads ==
  /\ comp.pc = "frameImg"
  /\ Becomes(frameImgOnload(World))

\* An image of the compile cannot be decoded.
ImageFails ==
  /\ comp.pc \in {"firstImg", "frameImg"}
  /\ Becomes(imgOnerror(World))

\* The hold of the frame just drawn is over: setTimeout(drawFrame, delay) fires.
HoldElapses ==
  /\ comp.pc = "hold"
  /\ now >= comp.due
  /\ Becomes(drawFrame(World))

\* The timeout armed after the last frame fires.
StopTimeoutFires ==
  /\ comp.pc = "stopWait"
  /\ now >= comp.due
  /\ Becomes(stopRecorder(World))

\* The recorder has stopped: its stop event.
RecorderStops ==
  /\ comp.pc = "stopping"
  /\ Becomes(recorderOnstop(World))

Next ==
  \/ AdvanceTime
  \/ CanvasChanges
  \/ ClickStart
  \/ ClickStop
  \/ ClickDownload
  \/ CaptureTimerFires
  \/ DurationTimerFires
  \/ RenderTask
  \/ EffectsTask
  \/ FirstImageLoads
  \/ FrameImageLoads
  \/ ImageFails
  \/ HoldElapses
  \/ StopTimeoutFires
  \/ RecorderStops

Spec == Init /\ [][Next]_vars

\* ------------------------------------------- a session run to the cap
\* One session followed tick by tick: the timers run when they are due, every
\* interval, and React's tasks run before the clock moves on.
IntervalOf(kind) == IF kind = "capture" THEN CaptureInterval ELSE DurationInterval

\* A setInterval timer that has run is due again one interval later.
rearm(w, t) ==
  [w EXCEPT !.timers = IF t \in @
                         THEN (@ \ {t}) \cup {[t EXCEPT !.due = @ + IntervalOf(t.kind)]}
                         ELSE @]

\* Time passes until the next timer is due; nothing React has to do is waiting.
IntervalComesDue ==
  /\ timers # {}
  /\ \A t \in timers : t.due > now
  /\ queued = Committed
  /\ effects = {}
  /\ now' = (CHOOSE d \in {t.due : t \in timers} : \A t \in timers : d <= t.due)
  /\ UNCHANGED << canvas, isRecording, recordedFrames, recordingDuration, isCompiling,
                  queued, startTimeRef, intervalRef, captureIntervalRef, timers,
                  nextTimerId, effects, comp, toasts, saved, returned, starts, mounted,
                  autoStops, playerVars, settingsVars >>

\* The capture timer runs its callback (RecordingControls.tsx:48-53).
CaptureTimerRuns ==
  \E t \in timers, eager \in BOOLEAN :
    /\ t.kind = "capture"
    /\ now >= t.due
    /\ eager => queued = Committed
    /\ Becomes(rearm(captureTick(World, t, eager), t))

\* The duration timer runs its callback (useSentinelSettings.ts:67-71).
DurationTimerRuns ==
  \E t \in timers :
    /\ t.kind = "duration"
    /\ now >= t.due
    /\ Becomes(rearm(durationTick(World), t))

InitCap == Init /\ canvas = "canvas"

NextCap ==
  \/ ClickStart
  \/ IntervalComesDue
  \/ CaptureTimerRuns
  \/ DurationTimerRuns
  \/ RenderTask
  \/ EffectsTask

SpecCap == InitCap /\ [][NextCap]_vars

\* ------------------------------------------------ the hook's own API
\* useVideoRecorder returns startRecording and stopRecording
\* (useSentinelSettings.ts:169-178): a user of the hook can call them in any
\* state, from an event handler, whatever buttons RecordingControls shows.
CallStartRecording ==
  /\ mounted
  /\ starts < MaxRuns
  /\ Becomes(SyncFlush(startRecording(World)))

CallStopRecording ==
  /\ mounted
  /\ Becomes(SyncFlush(stopRecording(World)))

NextHook ==
  \/ AdvanceTime
  \/ CallStartRecording
  \/ CallStopRecording
  \/ CaptureTimerFires
  \/ DurationTimerFires
  \/ RenderTask
  \/ EffectsTask

SpecHook == Init /\ [][NextHook]_vars

\* --------------------------------------------------------- teardown
\* The hook returns no reset() and nothing that cancels a compile
\* (useSentinelSettings.ts:169-178); what ends a controller is the unmount of
\* RecordingControls. React runs the effects still pending and then the
\* cleanups: the capture effect's (RecordingControls.tsx:56-61) is the only one
\* the component and its hook declare.
unmount(w) ==
  [captureCleanup(FlushEffects(w)) EXCEPT !.mounted = FALSE]

Unmount ==
  /\ mounted
  /\ Becomes(unmount(World))

NextTeardown ==
  \/ Next
  \/ Unmount

SpecTeardown == Init /\ [][NextTeardown]_vars

\* ------------------------------------- the compile of a buffered sequence
\* compileToVideo as a function of the frames it is given: the sequence is drawn
\* from bounded inputs, in a component that has stopped recording (or never
\* recorded, for the empty sequence), and the compile runs on it.
TimestampInputs ==
  {MsPerSecond, MsPerSecond + 20, MsPerSecond + MinFrameInterval,
   MsPerSecond + CaptureInterval}

FrameInputs ==
  UNION { [1..n -> [dataUrl : {toDataURL("canvas")}, timestamp : TimestampInputs]]
          : n \in 0..MaxFrames }

NonDecreasing(frames) ==
  \A i \in 1..Len(frames) - 1 : frames[i].timestamp <= frames[i + 1].timestamp

InitCompile ==
  /\ now = 2 * MsPerSecond
  /\ canvas = "canvas"
  /\ isRecording = FALSE
  /\ recordedFrames \in {f \in FrameInputs : NonDecreasing(f)}
  /\ recordingDuration = 0
  /\ isCompiling = FALSE
  /\ queued = Committed
  /\ startTimeRef = Null
  /\ intervalRef = Null
  /\ captureIntervalRef = Null
  /\ timers = {}
  /\ starts = (IF Len(recordedFrames) = 0 THEN 0 ELSE 1)
  /\ nextTimerId = 1 + 2 * starts
  /\ effects = {}
  /\ comp = NoCompile
  /\ toasts = "none"
  /\ saved = 0
  /\ returned = "none"
  /\ mounted = TRUE
  /\ autoStops = 0
  /\ PlayerInit
  /\ SettingsInit

\* Time passes until the compile's pending timeout is due.
TimeoutComesDue ==
  /\ comp.pc \in {"hold", "stopWait"}
  /\ comp.due > now
  /\ now' = comp.due
  /\ UNCHANGED << canvas, isRecording, recordedFrames, recordingDuration, isCompiling,
                  queued, startTimeRef, intervalRef, captureIntervalRef, timers,
                  nextTimerId, effects, comp, toasts, saved, returned, starts, mounted,
                  autoStops, playerVars, settingsVars >>

\* useVideoRecorder returns compileToVideo and downloadVideo
\* (useSentinelSettings.ts:169-178): a user of the hook can call them where the
\* DOWNLOAD button is disabled, on an empty store too. One such call is
\* followed, until its caller has what it returns.
CallCompileToVideo ==
  /\ comp.pc = "idle"
  /\ returned = "none"
  /\ \E ctx \in BOOLEAN :
       LET w1 == compileToVideo(World, "compileToVideo", ctx)
       IN  Becomes(IF w1.comp.pc = "null" THEN Settled(w1, FALSE) ELSE w1)

CallDownloadVideo ==
  /\ comp.pc = "idle"
  /\ returned = "none"
  /\ saved < MaxRuns
  /\ \E ctx \in BOOLEAN :
       LET w1 == downloadVideo(World, "downloadVideo", ctx)
       IN  Becomes(IF w1.comp.pc = "null" THEN Settled(w1, FALSE) ELSE w1)

NextCompile ==
  \/ AdvanceTime
  \/ TimeoutComesDue
  \/ ClickDownload
  \/ CallCompileToVideo
  \/ CallDownloadVideo
  \/ RenderTask
  \/ FirstImageLoads
  \/ FrameImageLoads
  \/ ImageFails
  \/ HoldElapses
  \/ StopTimeoutFires
  \/ RecorderStops

SpecCompile == InitCompile /\ [][NextCompile]_vars

\* What the browser is bound to do for a compile under way: an image that is
\* loading ends loading (or fails, which runs no handler), a timeout that was set
\* comes due and runs, a recorder that was stopped fires its stop event, and
\* React renders what was queued.
CompileFairness ==
  /\ WF_vars(FirstImageLoads)
  /\ WF_vars(FrameImageLoads)
  /\ WF_vars(TimeoutComesDue)
  /\ WF_vars(HoldElapses)
  /\ WF_vars(StopTimeoutFires)
  /\ WF_vars(RecorderStops)
  /\ WF_vars(RenderTask)

SpecCompileFair == SpecCompile /\ CompileFairness

\* ------------------------------------------------------- VideoPlayer
\* The videoUrl prop: relative paths of the backend and absolute URLs.
Urls == {"a.mp4", "/a.mp4", "http://h/b.mp4"}

\* lib/api resolveVideoUrl: an absolute URL is kept, a relative path gets the
\* API base, with a slash when the path has none.
resolveVideoUrl(url) ==
  CASE url = "http://h/b.mp4" -> url
    [] url = "/a.mp4" -> "api/a.mp4"
    [] url = "a.mp4" -> "api/a.mp4"

Player ==
  [ videoUrl |-> videoUrl, isHovered |-> isHovered, hasError |-> hasError,
    isLoading |-> isLoading, retryCount |-> retryCount, video |-> video,
    loads |-> loads, queued |-> playerQueued ]

PlayerBecomes(p) ==
  /\ videoUrl' = p.videoUrl
  /\ isHovered' = p.isHovered
  /\ hasError' = p.hasError
  /\ isLoading' = p.isLoading
  /\ retryCount' = p.retryCount
  /\ video' = p.video
  /\ loads' = p.loads
  /\ playerQueued' = p.queued
  /\ UNCHANGED << recorderVars, settingsVars >>

PlayerCommitted(p) ==
  [ isHovered |-> p.isHovered, hasError |-> p.hasError, isLoading |-> p.isLoading,
    retryCount |-> p.retryCount ]

\* handleRetry with the retryCount of the render that made it; the ref holds
\* the <video> element only while that element is rendered.
handleRetryNoLimit(p) ==
  LET q == [p.queued EXCEPT !.hasError = FALSE, !.isLoading = TRUE,
                            !.retryCount = @ + 1]
  IN  IF p.video # "none"
        THEN [p EXCEPT !.queued = q, !.video = "loading", !.loads = @ + 1]
        ELSE [p EXCEPT !.queued = q]

handleRetry(p) ==
  IF p.retryCount < MAX_RETRIES
    THEN LET q == [p.queued EXCEPT !.hasError = FALSE, !.isLoading = TRUE,
                                   !.retryCount = @ + 1]
         IN  IF p.video # "none"
               THEN [p EXCEPT !.queued = q, !.video = "loading", !.loads = @ + 1]
               ELSE [p EXCEPT !.queued = q]
    ELSE p

onError(p) == [p EXCEPT !.queued.hasError = TRUE, !.queued.isLoading = FALSE]

onLoadedData(p) == [p EXCEPT !.queued.hasError = FALSE, !.queued.isLoading = FALSE]

\* A render of VideoPlayer with the prop url: the queued state is committed;
\* the <video> element is rendered iff there is no error, a new element or a
\* new src starts a load.
renderPlayer(p, url) ==
  LET q == p.queued
      startsLoad == ~q.hasError /\ (p.video = "none"
                      \/ resolveVideoUrl(url) # resolveVideoUrl(p.videoUrl))
  IN  [p EXCEPT !.videoUrl = url,
                !.isHovered = q.isHovered, !.hasError = q.hasError,
                !.isLoading = q.isLoading, !.retryCount = q.retryCount,
                !.video = IF q.hasError THEN "none"
                          ELSE IF startsLoad THEN "loading" ELSE @,
                !.loads = IF startsLoad THEN @ + 1 ELSE @]

\* The RETRY button is rendered in the error panel while retries are left; a
\* click is a discrete event, rendered before the next event.
ClickRetry ==
  /\ hasError
  /\ retryCount < MAX_RETRIES
  /\ PlayerBecomes(renderPlayer(handleRetry(Player), videoUrl))

\* The element's error event.
VideoError ==
  /\ video \in {"loading", "ready"}
  /\ PlayerBecomes(onError(Player))

\* The element's loadeddata event.
VideoLoadedData ==
  /\ video = "loading"
  /\ PlayerBecomes([onLoadedData(Player) EXCEPT !.video = "ready"])

\* The pointer enters the card, and leaves it.
MouseEnter ==
  /\ ~playerQueued.isHovered
  /\ PlayerBecomes([Player EXCEPT !.queued.isHovered = TRUE])

MouseLeave ==
  /\ playerQueued.isHovered
  /\ PlayerBecomes([Player EXCEPT !.queued.isHovered = FALSE])

\* React renders the queued updates.
PlayerRenderTask ==
  /\ playerQueued # PlayerCommitted(Player)
  /\ PlayerBecomes(renderPlayer(Player, videoUrl))

\* The dashboard renders the player with another videoUrl.
UrlChanges ==
  /\ loads < MaxLoads
  /\ \E url \in Urls \ {videoUrl} : PlayerBecomes(renderPlayer(Player, url))

NextPlayer ==
  \/ ClickRetry
  \/ VideoError
  \/ VideoLoadedData
  \/ MouseEnter
  \/ MouseLeave
  \/ PlayerRenderTask
  \/ UrlChanges

SpecPlayer == Init /\ [][NextPlayer]_vars

\* ------------------------------------------------ useSentinelSettings
\* Two of the settings and the values they are given.
Keys == {"detectionSensitivity", "alertThreshold"}

KeyOrder == << "detectionSensitivity", "alertThreshold" >>

SettingValues == {50, 70, 90}

\* { ...a, ...b }
Spread(a, b) ==
  [k \in DOMAIN a \cup DOMAIN b |-> IF k \in DOMAIN b THEN b[k] ELSE a[k]]

\* JSON.stringify of an object: its members in key order.
stringify(o) ==
  LET ks == SelectSeq(KeyOrder, LAMBDA k : k \in DOMAIN o)
  IN  [kind |-> "json", members |-> [i \in DOMAIN ks |-> << ks[i], o[ks[i]] >>]]

\* JSON.parse of a stored text that is an object.
parse(text) ==
  [k \in {text.members[i][1] : i \in DOMAIN text.members} |->
     (CHOOSE m \in {text.members[i] : i \in DOMAIN text.members} : m[1] = k)[2]]

\* What localStorage holds under STORAGE_KEY when the hook mounts: nothing, a
\* text that does not parse, or an object saved earlier (with all keys, or
\* with one of them).
StoredInputs ==
  {NoStore, [kind |-> "corrupt", members |-> << >>]}
    \cup {stringify([k \in Keys |-> 90])}
    \cup {stringify([k \in {"alertThreshold"} |-> v]) : v \in {50, 90}}

Hook ==
  [ settings |-> settings, queued |-> settingsQueued, isLoaded |-> isLoaded,
    persisted |-> persisted, given |-> given, lastCall |-> lastCall ]

HookBecomes(h) ==
  /\ settings' = h.settings
  /\ settingsQueued' = h.queued
  /\ isLoaded' = h.isLoaded
  /\ persisted' = h.persisted
  /\ given' = h.given
  /\ lastCall' = h.lastCall
  /\ UNCHANGED << recorderVars, playerVars >>

\* The mount effect: a stored object is merged over the defaults, a text
\* that does not parse is logged and ignored.
loadEffect(h) ==
  IF h.persisted.kind = "json"
    THEN [h EXCEPT !.queued = Spread(DEFAULT_SETTINGS, parse(h.persisted)),
                   !.isLoaded = TRUE]
    ELSE [h EXCEPT !.isLoaded = TRUE]

\* updateSettings of the last render: it spreads that render's settings.
updateSettings(h, newSettings) ==
  LET updated == Spread(h.settings, newSettings)
  IN  [h EXCEPT !.queued = updated,
                !.persisted = stringify(updated),
                !.given = Spread(@, newSettings),
                !.lastCall = "updateSettings"]

resetSettings(h) ==
  [h EXCEPT !.queued = DEFAULT_SETTINGS,
            !.persisted = stringify(DEFAULT_SETTINGS),
            !.given = NoneGiven,
            !.lastCall = "resetSettings"]

renderSettings(h) == [h EXCEPT !.settings = h.queued]

\* The effect runs after the mount, and React renders what it set: the page
\* shows its controls only then.
LoadSettings ==
  /\ ~isLoaded
  /\ HookBecomes(renderSettings(loadEffect(Hook)))

CallUpdateSettings ==
  /\ isLoaded
  /\ \E k \in Keys, v \in SettingValues :
       HookBecomes(updateSettings(Hook, [j \in {k} |-> v]))

CallResetSettings ==
  /\ isLoaded
  /\ HookBecomes(resetSettings(Hook))

SettingsRenderTask ==
  /\ settingsQueued # settings
  /\ HookBecomes(renderSettings(Hook))

InitSettings ==
  /\ RecorderInit
  /\ canvas = "canvas"
  /\ PlayerInit
  /\ settings = DEFAULT_SETTINGS
  /\ settingsQueued = DEFAULT_SETTINGS
  /\ isLoaded = FALSE
  /\ persisted \in StoredInputs
  /\ given = NoneGiven
  /\ lastCall = "none"

NextSettings ==
  \/ LoadSettings
  \/ CallUpdateSettings
  \/ CallResetSettings
  \/ SettingsRenderTask

SpecSettings == InitSettings /\ [][NextSettings]_vars

\* ------------------------------------------------------------ claims
\* A capture timer is live.
CaptureActive == \E t \in timers : t.kind = "capture"

\* The last call of the recorder was stopRecording (or none was made yet):
\* startRecording queues isRecording true, stopRecording false.
StopCalled == ~queued.isRecording

\* C1: once stop() has been called, no capture tick appends to the frame store
\* until the next start(): between two states in both of which the recorder is
\* stopped, the store (the frames committed and the appends queued) keeps its
\* length.
C1_StopFreezesStore ==
  [][(StopCalled /\ StopCalled')
       => Len(queued'.recordedFrames) = Len(queued.recordedFrames)]_vars

\* C2: in every reachable state the capture timer is live if and only if the
\* component is recording.
C2_SchedulerIffRecording == CaptureActive <=> isRecording

\* A compile has been started and has not settled.
CompileInProgress == comp.pc # "idle"

\* C3: no compile is in progress while the component records or captures: a
\* download is not accepted while recording, nor a start while compiling.
C3_CompileExcludesRecording == ~(CompileInProgress /\ (isRecording \/ CaptureActive))

\* The hold the i-th frame of a sequence is due, counted from 1: the gap to the
\* next frame but no less than MinFrameInterval, and MinFrameInterval for the last.
HoldOf(frames, i) ==
  IF i < Len(frames)
    THEN Max(MinFrameInterval, frames[i + 1].timestamp - frames[i].timestamp)
    ELSE MinFrameInterval

\* The compile is past its last frame.
AllShown == comp.pc \in {"stopWait", "stopping"}

\* C4: compile emits one hold per frame, max(minFrameInterval, t[i+1] - t[i])
\* for every frame but the last and minFrameInterval for the last (so for a
\* single frame too), none below minFrameInterval.
C4_HoldDurations ==
  /\ \A i \in 1..Len(comp.shown) :
       /\ comp.shown[i].hold = HoldOf(comp.frames, i)
       /\ comp.shown[i].hold >= MinFrameInterval
  /\ AllShown => Len(comp.shown) = Len(comp.frames)

C4_Witness ==
  /\ comp.pc = "stopping"
  /\ Len(comp.shown) >= 2
  /\ comp.frames[2].timestamp - comp.frames[1].timestamp \in 1..(MinFrameInterval - 1)
  /\ comp.shown[1].hold = MinFrameInterval

RECURSIVE SumHolds(_)
SumHolds(shown) ==
  IF shown = <<>> THEN 0 ELSE Head(shown).hold + SumHolds(Tail(shown))

StrictlyIncreasing(frames) ==
  \A i \in 1..Len(frames) - 1 : frames[i].timestamp < frames[i + 1].timestamp

GapsAtLeastMin(frames) ==
  \A i \in 1..Len(frames) - 1 :
    frames[i + 1].timestamp - frames[i].timestamp >= MinFrameInterval

Span(frames) == frames[Len(frames)].timestamp - frames[1].timestamp

\* C5: for frames with strictly increasing timestamps the holds of a compile
\* sum to no less than (t[N-1] - t[0]) + minFrameInterval, and to exactly that
\* when every gap is at least minFrameInterval.
C5_HoldSum ==
  (AllShown /\ StrictlyIncreasing(comp.frames)) =>
    /\ SumHolds(comp.shown) >= Span(comp.frames) + MinFrameInterval
    /\ GapsAtLeastMin(comp.frames) =>
         SumHolds(comp.shown) = Span(comp.frames) + MinFrameInterval

C5_Witness ==
  /\ comp.pc = "stopping"
  /\ Len(comp.frames) >= 2
  /\ StrictlyIncreasing(comp.frames)
  /\ GapsAtLeastMin(comp.frames)
  /\ SumHolds(comp.shown) > 2 * MinFrameInterval

\* C6: a compile requested on an empty store gives its caller the no-artifact
\* outcome (null from compileToVideo, nothing saved by downloadVideo) and changes
\* nothing: no compile is set going, no recorder made, no artifact saved, and
\* the component's state and the store stay as they were.
C6_EmptyCompileIsNoOp ==
  [][(/\ comp.pc = "idle"
      /\ returned = "none"
      /\ Len(recordedFrames) = 0
      /\ (returned' # returned \/ comp' # comp))
       => /\ returned' \in {"null", "undefined"}
          /\ comp' = NoCompile
          /\ saved' = saved
          /\ UNCHANGED << isRecording, recordedFrames, recordingDuration, isCompiling,
                          queued, timers, toasts >>]_vars

C6_Witness ==
  /\ returned = "null"
  /\ Len(recordedFrames) = 0
  /\ comp = NoCompile
  /\ saved = 0

\* C7: right after start(), whatever came before, no frame is counted, the
\* elapsed duration is 0 and the component is recording.
C7_StartResets ==
  [][starts' # starts
       => /\ isRecording'
          /\ recordedFrames' = <<>>
          /\ queued'.recordedFrames = <<>>
          /\ recordingDuration' = 0]_vars

C7_Witness ==
  /\ starts = 2
  /\ saved = 1
  /\ isRecording
  /\ recordedFrames = <<>>
  /\ recordingDuration = 0

\* C8: when the elapsed duration has reached maxDuration while recording, the
\* stop that follows leaves the capture timer inactive at once, so that no frame
\* is appended after the auto-stop.
C8_AutoStopDeactivates ==
  [][(/\ isRecording
      /\ recordingDuration >= maxDuration
      /\ ~StopCalled
      /\ StopCalled')
       => ~CaptureActive']_vars

\* The frames drawn so far are the first frames of the sequence, in its order.
InOrder(c) ==
  /\ Len(c.shown) <= Len(c.frames)
  /\ \A i \in 1..Len(c.shown) : c.shown[i].frame = c.frames[i]

\* C9: compile draws the frames in capture order, each once; it draws the next
\* frame only when the hold of the one before is over, and stops the recorder
\* only past the last frame, when that frame's hold is over.
C9_InOrderAndPaced ==
  [][/\ InOrder(comp')
     /\ Len(comp'.shown) # Len(comp.shown) /\ comp'.pc # "idle"
          => /\ Len(comp'.shown) = Len(comp.shown) + 1
             /\ Len(comp.shown) >= 1 => now >= comp.due
     /\ (comp.pc # "stopWait" /\ comp'.pc = "stopWait")
          => Len(comp.shown) = Len(comp.frames) /\ now >= comp.due
     /\ (comp.recorder = "recording" /\ comp'.recorder # "recording")
          => comp.pc = "stopWait" /\ comp'.recorder = "inactive"]_vars

C9_Witness ==
  /\ comp.pc = "stopping"
  /\ Len(comp.shown) >= 2
  /\ comp.frames[1] # comp.frames[2]

\* C10: when an image of the compile cannot be decoded the compile is given up
\* and the failure is reported.
C10_DecodeFailureReported ==
  comp.pc = "imgError" => (toasts = "Failed to compile video" /\ ~queued.isCompiling)

\* The component shows itself as compiling, or is about to.
Compiling == isCompiling \/ queued.isCompiling

\* C11: every compile that is started ends: the component does not stay
\* compiling forever, and no compile stays in progress forever.
C11_CompileEnds == (Compiling \/ CompileInProgress) ~> ~(Compiling \/ CompileInProgress)

\* A frame of the store before and after a step: the same frame, its timestamp
\* read by then if it was still to be read.
SameFrame(old, new) ==
  /\ old.dataUrl = new.dataUrl
  /\ old.timestamp = Null \/ old.timestamp = new.timestamp

SameFrames(old, new) ==
  /\ Len(old) = Len(new)
  /\ \A i \in 1..Len(old) : SameFrame(old[i], new[i])

\* C12: no step of a compile (its start, its draws, its end, with or without an
\* artifact) changes the frame store, so a second compile finds the same frames.
C12_CompileKeepsStore ==
  [][comp' # comp => SameFrames(queued.recordedFrames, queued'.recordedFrames)]_vars

C12_Witness ==
  /\ saved = 1
  /\ starts = 1
  /\ comp.pc = "hold"
  /\ Len(comp.shown) >= 1
  /\ comp.frames = recordedFrames

\* C13: the reset of a controller whose compile is in progress (the code has no
\* reset(); its teardown is the unmount) cancels the compile: once the
\* component is gone no compile is in progress, with no image loading, no
\* recorder and no timeout left.
C13_TeardownCancelsCompile == ~mounted => comp = NoCompile

Success == "Video downloaded successfully"

\* C14: success is told to the user only for a compile that made an artifact and
\* handed it to the save action: a step that ends with the success message newly
\* shown has saved one artifact.
C14_SuccessOnlyWithArtifact ==
  [][(toasts # Success /\ toasts' = Success) => saved' = saved + 1]_vars

\* C15: a capture tick that finds no source appends no frame and changes
\* nothing (the session goes on, its timers live), and a tick that finds the
\* source appends one frame and changes nothing else.
C15_UnavailableSourceSkipsTick ==
  \A t \in timers, eager \in BOOLEAN :
    t.kind = "capture" =>
      LET w == captureTick(World, t, eager)
      IN  /\ canvas = "null" => w = World
          /\ canvas # "null" =>
               /\ Len(w.queued.recordedFrames) = Len(queued.recordedFrames) + 1
               /\ [w EXCEPT !.queued.recordedFrames = queued.recordedFrames] = World

C15_Witness ==
  /\ canvas = "null"
  /\ isRecording
  /\ Len(recordedFrames) >= 1
  /\ \E t \in timers : t.kind = "capture" /\ now >= t.due

\* C16: from stop() until the next start() the telemetry is frozen: the elapsed
\* duration and the number of frames keep the values they had at the stop.
C16_StopFreezesTelemetry ==
  [][(StopCalled /\ StopCalled')
       => /\ queued'.recordingDuration = queued.recordingDuration
          /\ Len(queued'.recordedFrames) = Len(queued.recordedFrames)]_vars

\* C17: stop() is idempotent: called on a stopped recorder it changes nothing,
\* and called twice it leaves what one call leaves.
C17_StopIdempotent ==
  /\ StopCalled => stopRecording(World) = World
  /\ stopRecording(stopRecording(World)) = stopRecording(World)

C17_Witness ==
  /\ StopCalled
  /\ starts >= 1
  /\ isRecording
  /\ Len(recordedFrames) >= 1

\* The frames of old are the first frames of new, in the same order.
IsPrefix(old, new) ==
  /\ Len(old) <= Len(new)
  /\ \A i \in 1..Len(old) : SameFrame(old[i], new[i])

\* C18: the store is append-only: a step that is not a start() leaves the frames
\* stored so far as the first frames of the store, none dropped, replaced or
\* moved; so only start() empties it.
C18_AppendOnly ==
  [][starts' = starts
       => /\ IsPrefix(queued.recordedFrames, queued'.recordedFrames)
          /\ IsPrefix(recordedFrames, recordedFrames')]_vars

C18_Witness ==
  /\ isRecording
  /\ Len(recordedFrames) = 2
  /\ recordedFrames[1].timestamp < recordedFrames[2].timestamp

C20_TickOnlyAppendsWhileRecording ==
  /\ \A t \in timers, eager \in BOOLEAN :
       t.kind = "capture" =>
         LET w == captureTick(World, t, eager)
         IN  /\ [w EXCEPT !.queued.recordedFrames = queued.recordedFrames] = World
             /\ ~isRecording => w.queued.recordedFrames = queued.recordedFrames
  /\ \A eager \in BOOLEAN :
       ~isRecording => addFrame(World, isRecording, toDataURL(canvas), eager) = World

\* The holds compileToVideo gives the frames of a store, summed.
RECURSIVE SumDelays(_, _)
SumDelays(frames, i) ==
  IF i > Len(frames) THEN 0 ELSE delay(frames, i) + SumDelays(frames, i + 1)

\* The session has been stopped at the cap and React has nothing left to do.
AutoStopped ==
  /\ ~isRecording
  /\ recordingDuration >= maxDuration
  /\ queued = Committed
  /\ effects = {}

CapMs == maxDuration * MsPerSecond

\* C21: a session with the source always there, stopped by the cap, has stored
\* one frame per capture interval of the cap, give or take one, and the holds a
\* compile gives them sum to the cap within 5%.
C21_FramesAndHoldsAtCap ==
  AutoStopped =>
    /\ Len(recordedFrames) >= CapMs \div CaptureInterval - 1
    /\ Len(recordedFrames) <= CapMs \div CaptureInterval + 1
    /\ 20 * SumDelays(recordedFrames, 1) >= 19 * CapMs
    /\ 20 * SumDelays(recordedFrames, 1) <= 21 * CapMs

\* C22: a compile works on the frames the store had when it was requested: a
\* start() or a tick while it runs changes neither the frames it draws, nor their
\* order, nor their holds.
C22_CompileWorksOnSnapshot ==
  [][/\ (~CompileInProgress /\ CompileInProgress') => comp'.frames = recordedFrames
     /\ (CompileInProgress /\ CompileInProgress') => comp'.frames = comp.frames
     /\ \A i \in 1..Len(comp'.shown) :
          /\ comp'.shown[i].frame = comp'.frames[i]
          /\ comp'.shown[i].hold = HoldOf(comp'.frames, i)]_vars

C22_Witness ==
  /\ CompileInProgress
  /\ isRecording
  /\ starts = 2
  /\ comp.frames # recordedFrames
  /\ Len(comp.shown) >= 1

DurationTimers == {t \in timers : t.kind = "duration"}

\* C23: whatever the calls of startRecording() and stopRecording(), at most one
\* duration timer is alive, and none when the recorder is stopped.
C23_OneDurationTimer ==
  /\ Cardinality(DurationTimers) <= 1
  /\ StopCalled => DurationTimers = {}

\* The DOWNLOAD button takes a click (RecordingControls.tsx:148).
DownloadEnabled == ~(Len(recordedFrames) = 0 \/ isCompiling \/ isRecording)

\* C24: at most one compile is in flight: while one is, isCompiling is true and
\* the download action starts no second one; and isCompiling is set back when
\* the compile has settled.
C24_OneCompileInFlight ==
  /\ CompileInProgress => (isCompiling /\ queued.isCompiling /\ ~DownloadEnabled)
  /\ queued.isCompiling => CompileInProgress

C24_Witness ==
  /\ comp.pc = "hold"
  /\ isCompiling
  /\ ~isRecording
  /\ Len(recordedFrames) >= 1
  /\ saved = 1

\* C25: once the component is unmounted no timer that it or its hook made is
\* alive: neither the capture timer nor the duration timer.
C25_TeardownClearsTimers == ~mounted => timers = {}

C27_DurationWithinCap ==
  [][/\ starts' = starts => recordingDuration' >= recordingDuration
     /\ recordingDuration' <= maxDuration]_vars

\* C28: in the video player retryCount never exceeds MAX_RETRIES; a retry
\* raises it by exactly one and starts a load of the source; at MAX_RETRIES
\* handleRetry changes nothing.
C28_RetriesBounded ==
  [][/\ retryCount' <= MAX_RETRIES
     /\ retryCount' # retryCount =>
          /\ retryCount' = retryCount + 1
          /\ loads' = loads + 1
          /\ video' = "loading"
     /\ retryCount' = MAX_RETRIES => handleRetry(Player)' = Player']_vars

C28_Witness == retryCount = MAX_RETRIES /\ hasError /\ loads >= 1 + MAX_RETRIES

\* C29: once updateSettings or resetSettings has been called and the result is
\* rendered, the persisted settings equal the in-memory settings, and every
\* key given to updateSettings since the last reset holds the latest value
\* given for it.
C29_NoUpdateLost ==
  (lastCall # "none" /\ settings = settingsQueued) =>
    /\ persisted.kind = "json"
    /\ parse(persisted) = settings
    /\ \A k \in DOMAIN given : settings[k] = given[k]

====
